---- MODULE Spec2Model ----
(***************************************************************************)
(* Model of the SkiSpatialDB geocoding worker (fastapi-app/geocode_worker.py)*)
(* and of the read endpoint that observes the same table                   *)
(* (fastapi-app/main.py).                                                  *)
(*                                                                         *)
(* Coordinates are fixed-point numbers in tenths of a degree: the float    *)
(* 50.1 is the integer 501.  Text is a sequence of one-character strings.  *)
(* An optional value is a sequence of length 0 (None / SQL NULL) or 1.     *)
(***************************************************************************)
EXTENDS Integers, Sequences, FiniteSets, TLC

\* ------------------------------------------------------------------------
\* Bounds of the model
\* ------------------------------------------------------------------------
\* number of rows of ski_resorts in the small store
NumRecords == 2
\* rows beyond the batch limit in the large store
ExtraRecords == 1
\* lookups followed for a watched row
MaxCalls == 7

\* ------------------------------------------------------------------------
\* Program constants
\* ------------------------------------------------------------------------
MAX_ATTEMPTS == 3
BatchLimit == 10
SRID == 4326

None == <<>>
Some(v) == <<v>>
IsNone(o) == o = <<>>
Val(o) == o[1]

\* ------------------------------------------------------------------------
\* float(str): surrounding blanks are ignored, then an optional sign, then
\* digits with at most one "."; at least one digit.  Anything else is a
\* ValueError.  The texts of this model carry at most one fractional digit
\* and no exponent, "inf", "nan" or "_".
\* ------------------------------------------------------------------------
Digits == {"0", "1", "2", "3", "4", "5", "6", "7", "8", "9"}
DigitVal(c) ==
  CASE c = "0" -> 0 [] c = "1" -> 1 [] c = "2" -> 2 [] c = "3" -> 3
    [] c = "4" -> 4 [] c = "5" -> 5 [] c = "6" -> 6 [] c = "7" -> 7
    [] c = "8" -> 8 [] c = "9" -> 9

RECURSIVE LStrip(_)
LStrip(s) == IF Len(s) > 0 /\ Head(s) = " " THEN LStrip(Tail(s)) ELSE s
RECURSIVE RStrip(_)
RStrip(s) ==
  IF Len(s) > 0 /\ s[Len(s)] = " " THEN RStrip(SubSeq(s, 1, Len(s) - 1)) ELSE s
Strip(s) == RStrip(LStrip(s))

RECURSIVE DigitsValue(_, _)
DigitsValue(s, acc) ==
  IF Len(s) = 0 THEN acc ELSE DigitsValue(Tail(s), acc * 10 + DigitVal(Head(s)))

AllDigits(s) == \A i \in 1..Len(s) : s[i] \in Digits
DotAt(s) == IF \E i \in 1..Len(s) : s[i] = "."
            THEN CHOOSE i \in 1..Len(s) : s[i] = "." /\ \A j \in 1..(i - 1) : s[j] # "."
            ELSE 0

\* the unsigned part: [ok, v] with v in tenths
ParseUnsigned(s) ==
  LET d == DotAt(s)
      ip == IF d = 0 THEN s ELSE SubSeq(s, 1, d - 1)
      fp == IF d = 0 THEN <<>> ELSE SubSeq(s, d + 1, Len(s))
  IN IF AllDigits(ip) /\ AllDigits(fp) /\ Len(ip) + Len(fp) > 0 /\ Len(fp) <= 1
     THEN [ok |-> TRUE, v |-> DigitsValue(ip, 0) * 10 + DigitsValue(fp, 0)]
     ELSE [ok |-> FALSE, v |-> 0]

ParseFloat(str) ==
  LET s == Strip(str)
      neg == Len(s) > 0 /\ Head(s) = "-"
      signed == Len(s) > 0 /\ Head(s) \in {"-", "+"}
      u == ParseUnsigned(IF signed THEN Tail(s) ELSE s)
  IN IF u.ok THEN [ok |-> TRUE, v |-> IF neg THEN 0 - u.v ELSE u.v]
     ELSE [ok |-> FALSE, v |-> 0]

\* ------------------------------------------------------------------------
\* JSON values as resp.json() returns them
\* ------------------------------------------------------------------------
\* A value is <<type, payload>>; numbers are in tenths; an object is the
\* sequence of its <<key, value>> members.
JNull == <<"null", <<>>>>
JBool(b) == <<"bool", <<b>>>>
JNum(n) == <<"num", <<n>>>>
JStr(s) == <<"str", s>>
JList(l) == <<"list", l>>
JObj(members) == <<"obj", members>>
TypeOf(j) == j[1]
Payload(j) == j[2]
HasKey(j, k) == \E n \in 1..Len(Payload(j)) : Payload(j)[n][1] = k
Member(j, k) == Payload(j)[CHOOSE n \in 1..Len(Payload(j)) : Payload(j)[n][1] = k][2]

\* bool(x) of `if results:`
Truthy(j) ==
  CASE TypeOf(j) = "null" -> FALSE
    [] TypeOf(j) = "bool" -> Payload(j)[1]
    [] TypeOf(j) = "num" -> Payload(j)[1] # 0
    [] OTHER -> Len(Payload(j)) > 0

Ok(x) == [exc |-> "", val |-> <<x>>]
Raise(e) == [exc |-> e, val |-> <<>>]

\* results[0]
Item0(j) ==
  CASE TypeOf(j) = "list" -> IF Len(Payload(j)) > 0 THEN Ok(Payload(j)[1]) ELSE Raise("IndexError")
    [] TypeOf(j) = "str" -> IF Len(Payload(j)) > 0 THEN Ok(JStr(<<Payload(j)[1]>>)) ELSE Raise("IndexError")
    [] TypeOf(j) = "obj" -> Raise("KeyError")
    [] OTHER -> Raise("TypeError")

\* x["lon"], x["lat"]
ItemKey(j, k) ==
  CASE TypeOf(j) = "obj" -> IF HasKey(j, k) THEN Ok(Member(j, k)) ELSE Raise("KeyError")
    [] OTHER -> Raise("TypeError")

\* float(x)
Float(j) ==
  CASE TypeOf(j) = "str" -> IF ParseFloat(Payload(j)).ok THEN Ok(ParseFloat(Payload(j)).v)
                             ELSE Raise("ValueError")
    [] TypeOf(j) = "num" -> Ok(Payload(j)[1])
    [] TypeOf(j) = "bool" -> Ok(IF Payload(j)[1] THEN 10 ELSE 0)
    [] OTHER -> Raise("TypeError")

\* float(results[0][k])
Coordinate(results, k) ==
  LET first == Item0(results) IN
  IF first.exc # "" THEN Raise(first.exc)
  ELSE LET field == ItemKey(first.val[1], k) IN
       IF field.exc # "" THEN Raise(field.exc) ELSE Float(field.val[1])

\* ------------------------------------------------------------------------
\* What requests.get(...) can come back with
\* ------------------------------------------------------------------------
Transport == [kind |-> "transport", json |-> JNull]
Timeout == [kind |-> "timeout", json |-> JNull]
HttpError == [kind |-> "http_error", json |-> JNull]
NotJson == [kind |-> "not_json", json |-> JNull]
Body(j) == [kind |-> "json", json |-> j]

Place(lon, lat) == JObj(<<<<"lon", lon>>, <<"lat", lat>>>>)

FoundBodies ==
  { Body(JList(<<Place(JStr(<<"0">>), JStr(<<"5", "0", ".", "1">>))>>)),
    Body(JList(<<Place(JStr(<<"-", "1", "2", "2", ".", "9">>),
                       JStr(<<" ", "5", "0", ".", "1", " ">>))>>)),
    Body(JList(<<Place(JNum(0 - 1229), JNum(501)), Place(JNum(7), JNum(7))>>)) }

NotFoundBodies ==
  { Transport, Timeout, HttpError, NotJson,
    Body(JList(<<>>)), Body(JObj(<<>>)), Body(JNull), Body(JStr(<<>>)),
    Body(JObj(<<<<"error", JStr(<<"x">>)>>>>)),
    Body(JList(<<JObj(<<<<"lat", JStr(<<"5", "0", ".", "1">>)>>>>)>>)),
    Body(JList(<<JObj(<<<<"lon", JStr(<<"0">>)>>>>)>>)),
    Body(JList(<<Place(JStr(<<"a", "b", "c">>), JStr(<<"5", "0", ".", "1">>))>>)),
    Body(JList(<<Place(JStr(<<"0">>), JStr(<<"1", ".", "2", ".", "3">>))>>)),
    Body(JList(<<Place(JStr(<<"-">>), JStr(<<"0">>))>>)) }

MalformedBodies ==
  { Body(JStr(<<"o", "o", "p", "s">>)),
    Body(JNum(50)),
    Body(JBool(TRUE)),
    Body(JList(<<JNull>>)),
    Body(JList(<<JList(<<JStr(<<"0">>), JStr(<<"0">>)>>)>>)),
    Body(JList(<<Place(JNull, JStr(<<"5", "0", ".", "1">>))>>)),
    Body(JList(<<Place(JStr(<<"0">>), JList(<<JNum(501)>>))>>)) }

Responses == FoundBodies \cup NotFoundBodies \cup MalformedBodies
ServiceDown == {Transport}
ServiceUp == {Body(JList(<<Place(JStr(<<"0">>), JStr(<<"5", "0", ".", "1">>))>>))}

\* ------------------------------------------------------------------------
\* geocode(query, cc) on a given response: what it returns or raises
\* ------------------------------------------------------------------------
Returns(lon, lat) == [exc |-> "", lon |-> lon, lat |-> lat]
Raises(e) == [exc |-> e, lon |-> None, lat |-> None]
Caught(e) == e \in {"RequestException", "ValueError", "KeyError"}

GeocodeBody(results) ==
  IF Truthy(results)
  THEN LET lon == Coordinate(results, "lon") IN
       IF lon.exc # "" THEN Raises(lon.exc)
       ELSE LET lat == Coordinate(results, "lat") IN
            IF lat.exc # "" THEN Raises(lat.exc)
            ELSE Returns(lon.val, lat.val)
  ELSE Returns(None, None)

GeocodeTry(resp) ==
  CASE resp.kind \in {"transport", "timeout", "http_error"} -> Raises("RequestException")
    [] resp.kind = "not_json" -> Raises("ValueError")
    [] OTHER -> GeocodeBody(resp.json)

geocode(resp) ==
  LET r == GeocodeTry(resp) IN
  IF r.exc # "" /\ Caught(r.exc) THEN Returns(None, None) ELSE r

\* ------------------------------------------------------------------------
\* The store and the worker
\* ------------------------------------------------------------------------
VARIABLES
  db,        \* committed rows of ski_resorts, by id
  tx,        \* the rows as the worker's open transaction sees them
  pc,        \* where the worker is
  rows,      \* result of the SELECT of this cycle
  idx,       \* position of the for loop in rows (1-based)
  lon, lat,  \* locals of the loop body
  log,       \* statements, lookups and delays of this cycle, in order
  err,       \* exception that ended this cycle, "" if none
  dbStart,   \* committed rows when this cycle connected
  service,   \* responses the geocoding service can give
  observed,  \* last response of the read endpoint
  reply,     \* last response of the generic endpoint
  asked,     \* the table names clients ask the generic endpoint for
  env,       \* the process environment: DATABASE_URL and WORKER_INTERVAL
  SLEEP_SEC, \* the module constant of lines 17-21
  exitBy,    \* what ended the process, "" while it runs
  calls,     \* lookups made so far, for the rows that are watched
  lost       \* cycles abandoned after the row's counter was bumped, likewise

config == <<env, SLEEP_SEC>>
api == <<reply, asked>>
vars == <<db, tx, pc, rows, idx, lon, lat, log, err, dbStart, service, observed, reply, asked,
          env, SLEEP_SEC, exitBy, calls, lost>>

\* ------------------------------------------------------------------------
\* int(str): surrounding blanks are ignored, then an optional sign, then
\* digits, at least one.  Anything else is a ValueError.  The texts of this
\* model carry no "_".
\* ------------------------------------------------------------------------
ParseInt(str) ==
  LET s == Strip(str)
      neg == Len(s) > 0 /\ Head(s) = "-"
      signed == Len(s) > 0 /\ Head(s) \in {"-", "+"}
      u == IF signed THEN Tail(s) ELSE s
  IN IF Len(u) > 0 /\ AllDigits(u)
     THEN [ok |-> TRUE, v |-> IF neg THEN 0 - DigitsValue(u, 0) ELSE DigitsValue(u, 0)]
     ELSE [ok |-> FALSE, v |-> 0]

\* os.getenv(name, default)
GetEnv(value, default) == IF IsNone(value) THEN default ELSE Val(value)

\* lines 17-21
DefaultInterval == 10
SleepSec(e) ==
  LET parsed == ParseInt(GetEnv(e.WORKER_INTERVAL, <<"1", "0">>))
  IN IF parsed.ok THEN parsed.v ELSE DefaultInterval

\* `not DATABASE_URL` of line 27
NoDatabaseUrl(e) == IsNone(e.DATABASE_URL) \/ Len(Val(e.DATABASE_URL)) = 0

DatabaseUrls == {None, Some(<<>>), Some(<<"p", "g">>)}
Intervals == {None, Some(<<>>), Some(<<"s", "o", "o", "n">>), Some(<<"1", ".", "5">>),
              Some(<<"0">>), Some(<<"-", "1">>), Some(<<" ", "5", " ">>)}
DefaultEnv == [DATABASE_URL |-> Some(<<"p", "g">>), WORKER_INTERVAL |-> None]

\* str.lower() on the letters A-Z; every other character is kept
UpperCase == <<"A", "B", "C", "D", "E", "F", "G", "H", "I", "J", "K", "L", "M", "N", "O", "P", "Q", "R", "S", "T", "U", "V", "W", "X", "Y", "Z">>
LowerCase == <<"a", "b", "c", "d", "e", "f", "g", "h", "i", "j", "k", "l", "m", "n", "o", "p", "q", "r", "s", "t", "u", "v", "w", "x", "y", "z">>
LowerChar(c) ==
  IF \E i \in 1..Len(UpperCase) : UpperCase[i] = c
  THEN LowerCase[CHOOSE i \in 1..Len(UpperCase) : UpperCase[i] = c]
  ELSE c
Lower(s) == [i \in 1..Len(s) |-> LowerChar(s[i])]

\* the dict of lines 33-40 as pairs <<key, code>>
COUNTRY_CODES ==
  { <<<<"c", "a", "n", "a", "d", "a">>, <<"c", "a">>>>,
    <<<<"u", "n", "i", "t", "e", "d", " ", "s", "t", "a", "t", "e", "s">>, <<"u", "s">>>>,
    <<<<"u", "s", "a">>, <<"u", "s">>>>,
    <<<<"u", "s">>, <<"u", "s">>>>,
    <<<<"f", "r", "a", "n", "c", "e">>, <<"f", "r">>>>,
    <<<<"s", "w", "i", "t", "z", "e", "r", "l", "a", "n", "d">>, <<"c", "h">>>>,
    <<<<"a", "u", "s", "t", "r", "i", "a">>, <<"a", "t">>>>,
    <<<<"i", "t", "a", "l", "y">>, <<"i", "t">>>>,
    <<<<"g", "e", "r", "m", "a", "n", "y">>, <<"d", "e">>>>,
    <<<<"j", "a", "p", "a", "n">>, <<"j", "p">>>>,
    <<<<"a", "u", "s", "t", "r", "a", "l", "i", "a">>, <<"a", "u">>>>,
    <<<<"n", "o", "r", "w", "a", "y">>, <<"n", "o">>>>,
    <<<<"s", "w", "e", "d", "e", "n">>, <<"s", "e">>>>,
    <<<<"s", "p", "a", "i", "n">>, <<"e", "s">>>>,
    <<<<"c", "h", "i", "l", "e">>, <<"c", "l">>>>,
    <<<<"a", "r", "g", "e", "n", "t", "i", "n", "a">>, <<"a", "r">>>>,
    <<<<"n", "e", "w", " ", "z", "e", "a", "l", "a", "n", "d">>, <<"n", "z">>>>,
    <<<<"u", "n", "i", "t", "e", "d", " ", "k", "i", "n", "g", "d", "o", "m">>, <<"g", "b">>>>,
    <<<<"u", "k">>, <<"g", "b">>>> }

\* dict.get(key): the value, or None
Get(dict, key) ==
  IF \E p \in dict : p[1] = key
  THEN Some((CHOOSE p \in dict : p[1] = key)[2])
  ELSE None

\* line 43 without .strip()
country_code_unstripped(country) == Get(COUNTRY_CODES, Lower(country))

\* lines 42-43
country_code(country) == Get(COUNTRY_CODES, Lower(Strip(country)))

\* `value or default` for a text column: NULL and '' are falsy
OrElse(value, default) ==
  IF IsNone(value) \/ Val(value) = <<>> THEN default ELSE Val(value)

Canada == <<"C", "a", "n", "a", "d", "a">>
Sep == <<",", " ">>

\* a row as it is loaded, with the columns of lines 47-53 at their defaults
NewRow == [name |-> Some(<<"A">>), province |-> Some(<<"B", "C">>),
           nearest_city |-> Some(<<"W">>), country |-> Some(Canada),
           geocode_attempts |-> 0, geocode_failed |-> FALSE,
           lon_wgs84 |-> None, lat_wgs84 |-> None, geom_wgs84 |-> None]

\* ST_SetSRID(ST_MakePoint(x, y), 4326)
MakePoint(x, y) == [x |-> x, y |-> y, srid |-> SRID]

Min(a, b) == IF a <= b THEN a ELSE b

\* the query without LIMIT
FetchAll(n) == n

\* LIMIT 10: how many of n matching rows the query returns
FetchCount(n) == Min(BatchLimit, n)

\* `not lon` in place of `lon is None`
NoResultFalsy(l) == IsNone(l) \/ Val(l) = 0

\* `if lon is None`
NoResult(l) == IsNone(l)

RECURSIVE Ascending(_)
Ascending(S) ==
  IF S = {} THEN <<>>
  ELSE LET m == CHOOSE a \in S : \A b \in S : a <= b
       IN <<m>> \o Ascending(S \ {m})

\* the WHERE clause without the two tracking columns
EligibleGeomOnly(store) ==
  { r \in DOMAIN store : IsNone(store[r].geom_wgs84) }

\* the WHERE clause without geom_wgs84 IS NULL
EligibleTrackingOnly(store) ==
  { r \in DOMAIN store : /\ store[r].geocode_failed = FALSE
                         /\ store[r].geocode_attempts < MAX_ATTEMPTS }

\* WHERE geom_wgs84 IS NULL AND geocode_failed = FALSE AND geocode_attempts < %s
Eligible(store) ==
  { r \in DOMAIN store : /\ IsNone(store[r].geom_wgs84)
                         /\ store[r].geocode_failed = FALSE
                         /\ store[r].geocode_attempts < MAX_ATTEMPTS }

\* one entry of the cycle's log
Event(ev, id, res, at) ==
  [ev |-> ev, id |-> id, res |-> res, at |-> at, q |-> <<>>, countrycodes |-> None]
Stmt(ev, id) == Event(ev, id, "", None)
Pace(id) == Event("pace", id, "", None)

\* the entries of the log that record ev for row r
Made(ev, r) == { n \in 1..Len(log) : log[n].ev = ev /\ log[n].id = r }

\* one more lookup for row r, if it is watched and within the bound
Tick(f, r) == IF r \in DOMAIN f THEN [f EXCEPT ![r] = @ + 1] ELSE f
Within(f, r) == r \in DOMAIN f => f[r] < MaxCalls

\* ski_resorts_geojson: the features of the committed rows with a geometry
Features(store) ==
  { <<r, Val(store[r].geom_wgs84)>> : r \in { q \in DOMAIN store : ~IsNone(store[q].geom_wgs84) } }

\* the character classes of the pattern [a-zA-Z_][a-zA-Z0-9_]*
FirstChars == { LowerCase[i] : i \in 1..Len(LowerCase) } \cup
              { UpperCase[i] : i \in 1..Len(UpperCase) } \cup {"_"}
RestChars == FirstChars \cup Digits

\* [a-zA-Z0-9_]* against the whole of s
RECURSIVE MatchRest(_)
MatchRest(s) == Len(s) = 0 \/ (Head(s) \in RestChars /\ MatchRest(Tail(s)))

\* re.match: the pattern against a prefix of s
Match(s) == Len(s) > 0 /\ Head(s) \in FirstChars

\* re.fullmatch of main.py line 81
FullMatch(s) == Len(s) > 0 /\ Head(s) \in FirstChars /\ MatchRest(Tail(s))

\* the relations of schema public: the table, a view over it, and a table
\* of PostGIS that has no geom_wgs84 column
SkiResorts == <<"s", "k", "i", "_", "r", "e", "s", "o", "r", "t", "s">>
ResortsView == <<"r", "e", "s", "o", "r", "t", "s", "_", "b", "c">>
SpatialRefSys == <<"s", "p", "a", "t", "i", "a", "l", "_", "r", "e", "f", "_", "s", "y", "s">>
\* the answer of the query of lines 84-89: is there a row for the table
HasGeom(table) == table \in {SkiResorts, ResortsView}

\* table names a client can put in the path; a path segment is not empty
\* and has no slash
NotAName == <<"1", "a", "b", "c">>
TableNames ==
  { ResortsView, SpatialRefSys, <<"n", "o", "p", "e">>, <<"_", "t", "1">>, <<"S", "k", "i", "_", "R", "e", "s", "o", "r", "t", "s">>, NotAName,
    <<"s", "k", "i", "-", "r", "e", "s", "o", "r", "t", "s">>, <<"a", " ", "b">>,
    <<"x", ";", " ", "D", "R", "O", "P", " ", "T", "A", "B", "L", "E", " ", "s", "k", "i", "_", "r", "e", "s", "o", "r", "t", "s">>,
    <<"r", "e", "s", "o", "r", "t", "s", "_", "b", "c", "-", "-">>, <<"t", "\n">> }

\* the statements of lines 84-89 and 93-97
ColumnQuery(table) == <<"information_schema.columns", table>>
SelectQuery(table) == <<"public", table>>

\* lines 81-101
generic_geojson(table, store) ==
  IF ~FullMatch(table)
  THEN [table |-> table, status |-> 400, body |-> <<"error", "invalid table name">>,
        queries |-> <<>>]
  ELSE IF ~HasGeom(table)
  THEN [table |-> table, status |-> 404,
        body |-> <<"error", "not found or has no geom_wgs84">>,
        queries |-> <<ColumnQuery(table)>>]
  ELSE [table |-> table, status |-> 200, body |-> <<"FeatureCollection", Features(store)>>,
        queries |-> <<ColumnQuery(table), SelectQuery(table)>>]

InitWorker ==
  /\ tx = db
  /\ dbStart = db
  /\ pc = "start"
  /\ SLEEP_SEC = DefaultInterval
  /\ exitBy = ""
  /\ lost = [r \in DOMAIN calls |-> 0]
  /\ rows = <<>>
  /\ idx = 0
  /\ lon = None
  /\ lat = None
  /\ log = <<>>
  /\ err = ""
  /\ observed = None
  /\ reply = None

Init ==
  /\ db = [r \in 1..NumRecords |-> NewRow]
  /\ service = Responses
  /\ env = DefaultEnv
  /\ calls = <<>>
  /\ asked = {NotAName}
  /\ InitWorker

\* A store large enough for LIMIT to bind, as it is after two committed
\* cycles that both fetched rows 1..BatchLimit and found nothing for them;
\* from here on the service is down or up.
InitBatch ==
  /\ db = [r \in 1..(BatchLimit + ExtraRecords) |->
             IF r <= BatchLimit
             THEN [NewRow EXCEPT !.geocode_attempts = MAX_ATTEMPTS - 1]
             ELSE NewRow]
  /\ service \in {ServiceDown, ServiceUp}
  /\ env = DefaultEnv
  /\ calls = <<>>
  /\ asked = {NotAName}
  /\ InitWorker

\* the small store, under every environment
InitConfig ==
  /\ db = [r \in 1..NumRecords |-> NewRow]
  /\ service = ServiceDown \cup ServiceUp
  /\ env \in [DATABASE_URL : DatabaseUrls, WORKER_INTERVAL : Intervals]
  /\ calls = <<>>
  /\ asked = {NotAName}
  /\ InitWorker

\* the small store with the lookups of one row, any one, counted
InitCalls ==
  /\ db = [r \in 1..NumRecords |-> NewRow]
  /\ service = ServiceDown \cup ServiceUp
  /\ env = DefaultEnv
  /\ \E w \in 1..NumRecords : calls = [r \in {w} |-> 0]
  /\ asked = {NotAName}
  /\ InitWorker

\* values of the country column: NULL, empty, blank, spellings of a name in
\* the table, other names in the table, a name that is not in it
Countries ==
  { None, Some(<<>>), Some(<<" ", " ">>),
    Some(<<" ", "C", "a", "n", "a", "d", "a", " ">>), Some(<<"c", "a", "n", "a", "d", "a">>), Some(<<"C", "A", "N", "A", "D", "A">>),
    Some(<<"U", "K">>), Some(<<"N", "e", "w", " ", "Z", "e", "a", "l", "a", "n", "d">>), Some(<<"A", "t", "l", "a", "n", "t", "i", "s">>) }

\* the small store where one row, any one, has any of these countries; the
\* service is down or up
InitCountry ==
  /\ \E w \in 1..NumRecords : \E c \in Countries :
       db = [r \in 1..NumRecords |-> IF r = w THEN [NewRow EXCEPT !.country = c] ELSE NewRow]
  /\ service \in {ServiceDown, ServiceUp}
  /\ env = DefaultEnv
  /\ calls = <<>>
  /\ asked = {NotAName}
  /\ InitWorker

\* the small store, with clients asking for every name; the service is
\* down or up
InitApi ==
  /\ db = [r \in 1..NumRecords |-> NewRow]
  /\ service \in {ServiceDown, ServiceUp}
  /\ env = DefaultEnv
  /\ calls = <<>>
  /\ asked = TableNames \cup {SkiResorts}
  /\ InitWorker

\* the process ends: SystemExit, an exception nothing catches, or a kill
Exit(by) ==
  /\ pc' = "exited"
  /\ exitBy' = by

\* lines 16-29, run when the module is loaded
LoadConfig ==
  /\ pc = "start"
  /\ SLEEP_SEC' = SleepSec(env)
  /\ IF NoDatabaseUrl(env)
     THEN Exit("SystemExit")
     ELSE pc' = "bootstrap" /\ exitBy' = exitBy
  /\ UNCHANGED <<db, tx, rows, idx, lon, lat, log, err, dbStart, service, observed, api, env>>
  /\ UNCHANGED <<calls, lost>>

\* lines 157-158; the columns exist, so ADD COLUMN IF NOT EXISTS adds none
Bootstrap ==
  /\ pc = "bootstrap"
  /\ pc' = "connect"
  /\ UNCHANGED <<db, tx, rows, idx, lon, lat, log, err, dbStart, service, observed, api,
                 config, exitBy>>
  /\ UNCHANGED <<calls, lost>>

\* lines 157-158 with the store unreachable or the ALTER TABLE rejected:
\* no try encloses them
BootstrapError ==
  /\ pc = "bootstrap"
  /\ Exit("OperationalError")
  /\ UNCHANGED <<db, tx, rows, idx, lon, lat, log, err, dbStart, service, observed, api,
                 config>>
  /\ UNCHANGED <<calls, lost>>

\* the with-block of line 162 committing on the way out of an exception
AbandonCommitting(e) ==
  /\ db' = tx
  /\ err' = e
  /\ pc' = "sleep"
  /\ UNCHANGED <<tx, rows, idx, lon, lat, dbStart, service, observed, api, config, exitBy>>
  /\ lost' = [r \in DOMAIN lost |-> lost[r] + (IF Made("update_attempts", r) # {} THEN 1 ELSE 0)]

\* the with-block of line 162 left by an exception: rollback, then line 165
Abandon(e) ==
  /\ tx' = db
  /\ err' = e
  /\ pc' = "sleep"
  /\ UNCHANGED <<db, rows, idx, lon, lat, dbStart, service, observed, api, config, exitBy>>
  /\ lost' = [r \in DOMAIN lost |-> lost[r] + (IF Made("update_attempts", r) # {} THEN 1 ELSE 0)]

\* psycopg2.connect(DATABASE_URL) of line 162
Connect ==
  /\ pc = "connect"
  /\ tx' = db
  /\ dbStart' = db
  /\ pc' = "select"
  /\ UNCHANGED <<db, rows, idx, lon, lat, log, err, service, observed, api, config, exitBy>>
  /\ UNCHANGED <<calls, lost>>

ConnectError ==
  /\ pc = "connect"
  /\ dbStart' = db
  /\ Abandon("OperationalError")
  /\ UNCHANGED log
  /\ UNCHANGED calls

\* the pacing delay taken before the early return
NoRowsPaced ==
  /\ pc' = "sleep"
  /\ idx' = 0
  /\ log' = Append(log, Pace(0))

\* lines 100-102: nothing fetched, return
NoRows ==
  /\ pc' = "sleep"
  /\ idx' = 0
  /\ log' = log

\* lines 91-102
Select ==
  /\ pc = "select"
  /\ \E S \in SUBSET Eligible(tx) :
       /\ Cardinality(S) = FetchCount(Cardinality(Eligible(tx)))
       /\ rows' = [n \in 1..Cardinality(S) |->
                     [id |-> Ascending(S)[n],
                      name |-> tx[Ascending(S)[n]].name,
                      province |-> tx[Ascending(S)[n]].province,
                      nearest_city |-> tx[Ascending(S)[n]].nearest_city,
                      country |-> tx[Ascending(S)[n]].country,
                      geocode_attempts |-> tx[Ascending(S)[n]].geocode_attempts]]
       /\ IF S = {}
          THEN NoRows
          ELSE /\ pc' = "bump"
               /\ idx' = 1
               /\ log' = log
  /\ UNCHANGED <<db, tx, lon, lat, err, dbStart, service, observed, api, config, exitBy>>
  /\ UNCHANGED <<calls, lost>>

pid == rows[idx].id
attempts == rows[idx].geocode_attempts + 1

\* lines 115-120 and 125
name == OrElse(rows[idx].name, <<>>)
province == OrElse(rows[idx].province, <<>>)
city == OrElse(rows[idx].nearest_city, <<>>)
cntry == OrElse(rows[idx].country, Canada)
cc == country_code(cntry)
query == name \o Sep \o province \o Sep \o cntry
query2 == name \o Sep \o city \o Sep \o cntry

\* lines 60-62: the request parameters; countrycodes only `if cc`
Params(qry, code) ==
  [q |-> qry, countrycodes |-> IF IsNone(code) \/ Val(code) = <<>> THEN None ELSE code]

\* one call of geocode(qry, code) for the current row and its result g
Lookup(ev, id, qry, code, g) ==
  [ev |-> ev, id |-> id,
   res |-> IF g.exc # "" THEN "raised" ELSE IF IsNone(g.lon) THEN "none" ELSE "found",
   at |-> IF g.exc = "" /\ ~IsNone(g.lon) THEN Some(<<Val(g.lon), Val(g.lat)>>) ELSE None,
   q |-> Params(qry, code).q, countrycodes |-> Params(qry, code).countrycodes]

\* the UPDATE of line 109 committed on its own
BumpAttemptsAutocommit ==
  /\ pc = "bump"
  /\ tx' = [tx EXCEPT ![pid].geocode_attempts = attempts]
  /\ db' = [db EXCEPT ![pid].geocode_attempts = attempts]
  /\ log' = Append(log, Stmt("update_attempts", pid))
  /\ pc' = "primary"
  /\ UNCHANGED <<rows, idx, lon, lat, err, dbStart, service, observed, api, config, exitBy>>
  /\ UNCHANGED <<calls, lost>>

\* the UPDATE of line 109 without its WHERE clause
BumpAttemptsEverywhere ==
  /\ pc = "bump"
  /\ tx' = [r \in DOMAIN tx |-> [tx[r] EXCEPT !.geocode_attempts = attempts]]
  /\ log' = Append(log, Stmt("update_attempts", pid))
  /\ pc' = "primary"
  /\ UNCHANGED <<db, rows, idx, lon, lat, err, dbStart, service, observed, api, config, exitBy>>
  /\ UNCHANGED <<calls, lost>>

\* the UPDATE of line 109 without its `+ 1`
BumpAttemptsUnchanged ==
  /\ pc = "bump"
  /\ tx' = tx
  /\ log' = Append(log, Stmt("update_attempts", pid))
  /\ pc' = "primary"
  /\ UNCHANGED <<db, rows, idx, lon, lat, err, dbStart, service, observed, api, config, exitBy>>
  /\ UNCHANGED <<calls, lost>>

\* lines 105-113
BumpAttempts ==
  /\ pc = "bump"
  /\ tx' = [tx EXCEPT ![pid].geocode_attempts = attempts]
  /\ log' = Append(log, Stmt("update_attempts", pid))
  /\ pc' = "primary"
  /\ UNCHANGED <<db, rows, idx, lon, lat, err, dbStart, service, observed, api, config, exitBy>>
  /\ UNCHANGED <<calls, lost>>

\* line 122
GeocodePrimary ==
  /\ pc = "primary"
  /\ Within(calls, pid)
  /\ calls' = Tick(calls, pid)
  /\ \E resp \in service :
       LET g == geocode(resp) IN
       /\ log' = Append(log, Lookup("primary", pid, query, cc, g))
       /\ IF g.exc # ""
          THEN Abandon(g.exc)
          ELSE /\ lon' = g.lon
               /\ lat' = g.lat
               /\ pc' = IF NoResult(g.lon) THEN "fallback" ELSE "write"
               /\ UNCHANGED <<db, tx, rows, idx, err, dbStart, service, observed, api, config,
                              exitBy, lost>>

\* lines 123-127
GeocodeFallback ==
  /\ pc = "fallback"
  /\ Within(calls, pid)
  /\ calls' = Tick(calls, pid)
  /\ \E resp \in service :
       LET g == geocode(resp) IN
       IF g.exc # ""
       THEN /\ log' = Append(log, Lookup("fallback", pid, query2, cc, g))
            /\ Abandon(g.exc)
       ELSE /\ log' = Append(Append(log, Lookup("fallback", pid, query2, cc, g)), Pace(pid))
            /\ lon' = g.lon
            /\ lat' = g.lat
            /\ pc' = IF NoResult(g.lon) THEN "unresolved" ELSE "write"
            /\ UNCHANGED <<db, tx, rows, idx, err, dbStart, service, observed, api, config,
                           exitBy, lost>>

\* the for loop moves on, or line 152 is next
NextRow ==
  /\ idx' = IF idx < Len(rows) THEN idx + 1 ELSE idx
  /\ pc' = IF idx < Len(rows) THEN "bump" ELSE "commit"

\* `attempts > MAX_ATTEMPTS` in place of `>=`
UnresolvedStrict ==
  /\ pc = "unresolved"
  /\ IF attempts > MAX_ATTEMPTS
     THEN /\ tx' = [tx EXCEPT ![pid].geocode_failed = TRUE]
          /\ log' = Append(log, Stmt("update_failed", pid))
     ELSE UNCHANGED <<tx, log>>
  /\ NextRow
  /\ UNCHANGED <<db, rows, lon, lat, err, dbStart, service, observed, api, config, exitBy>>
  /\ UNCHANGED <<calls, lost>>

\* the UPDATE of line 131 without the test of line 130
UnresolvedAlways ==
  /\ pc = "unresolved"
  /\ tx' = [tx EXCEPT ![pid].geocode_failed = TRUE]
  /\ log' = Append(log, Stmt("update_failed", pid))
  /\ NextRow
  /\ UNCHANGED <<db, rows, lon, lat, err, dbStart, service, observed, api, config, exitBy>>
  /\ UNCHANGED <<calls, lost>>

\* lines 129-137
Unresolved ==
  /\ pc = "unresolved"
  /\ IF attempts >= MAX_ATTEMPTS
     THEN /\ tx' = [tx EXCEPT ![pid].geocode_failed = TRUE]
          /\ log' = Append(log, Stmt("update_failed", pid))
     ELSE UNCHANGED <<tx, log>>
  /\ NextRow
  /\ UNCHANGED <<db, rows, lon, lat, err, dbStart, service, observed, api, config, exitBy>>
  /\ UNCHANGED <<calls, lost>>

\* the UPDATE of line 139 without its geom_wgs84 column
WriteCoordinatesOnly ==
  /\ pc = "write"
  /\ tx' = [tx EXCEPT ![pid].lon_wgs84 = lon,
                      ![pid].lat_wgs84 = lat]
  /\ log' = Append(Append(log, Stmt("update_geom", pid)), Pace(pid))
  /\ NextRow
  /\ UNCHANGED <<db, rows, lon, lat, err, dbStart, service, observed, api, config, exitBy>>
  /\ UNCHANGED <<calls, lost>>

\* lines 139-150
WriteGeometry ==
  /\ pc = "write"
  /\ tx' = [tx EXCEPT ![pid].lon_wgs84 = lon,
                      ![pid].lat_wgs84 = lat,
                      ![pid].geom_wgs84 = Some(MakePoint(Val(lon), Val(lat)))]
  /\ log' = Append(Append(log, Stmt("update_geom", pid)), Pace(pid))
  /\ NextRow
  /\ UNCHANGED <<db, rows, lon, lat, err, dbStart, service, observed, api, config, exitBy>>
  /\ UNCHANGED <<calls, lost>>

\* line 152
Commit ==
  /\ pc = "commit"
  /\ db' = tx
  /\ log' = Append(log, Stmt("commit", 0))
  /\ pc' = "sleep"
  /\ UNCHANGED <<tx, rows, idx, lon, lat, err, dbStart, service, observed, api, config, exitBy>>
  /\ UNCHANGED <<calls, lost>>

\* a statement of the cycle fails (connection lost, server error)
StoreError ==
  /\ \/ pc \in {"select", "bump", "write", "commit"}
     \/ pc = "unresolved" /\ attempts >= MAX_ATTEMPTS
  /\ Abandon("OperationalError")
  /\ UNCHANGED log
  /\ UNCHANGED calls

\* line 166: time.sleep raises ValueError for a negative length, outside the
\* try; otherwise the next cycle starts and the finished one's locals are gone
Sleep ==
  /\ pc = "sleep"
  /\ IF SLEEP_SEC < 0
     THEN /\ Exit("ValueError")
          /\ UNCHANGED <<rows, idx, lon, lat, log, err, tx, dbStart>>
     ELSE /\ pc' = "connect"
          /\ rows' = <<>>
          /\ idx' = 0
          /\ lon' = None
          /\ lat' = None
          /\ log' = <<>>
          /\ err' = ""
          /\ tx' = db
          /\ dbStart' = db
          /\ exitBy' = exitBy
  /\ UNCHANGED <<db, service, observed, api, config>>
  /\ UNCHANGED <<calls, lost>>

\* the process is killed; the server rolls the open transaction back
Crash ==
  /\ pc # "exited"
  /\ Exit("killed")
  /\ tx' = db
  /\ UNCHANGED <<db, rows, idx, lon, lat, log, err, dbStart, service, observed, api, config>>
  /\ UNCHANGED <<calls, lost>>

\* GET /api/geojson/ski_resorts
ReadApi ==
  /\ observed' = Some(Features(db))
  /\ UNCHANGED api
  /\ UNCHANGED <<db, tx, pc, rows, idx, lon, lat, log, err, dbStart, service, config, exitBy>>
  /\ UNCHANGED <<calls, lost>>

\* GET /api/geojson/{table}; the route of ski_resorts_geojson is declared
\* first and takes the path /api/geojson/ski_resorts
GenericGeojson ==
  /\ \E table \in asked \ {SkiResorts} : reply' = Some(generic_geojson(table, db))
  /\ UNCHANGED <<db, tx, pc, rows, idx, lon, lat, log, err, dbStart, service, observed, config,
                 exitBy, asked>>
  /\ UNCHANGED <<calls, lost>>

Next ==
  \/ LoadConfig
  \/ Bootstrap
  \/ BootstrapError
  \/ Connect
  \/ ConnectError
  \/ Select
  \/ BumpAttempts
  \/ GeocodePrimary
  \/ GeocodeFallback
  \/ Unresolved
  \/ WriteGeometry
  \/ Commit
  \/ StoreError
  \/ Sleep
  \/ Crash
  \/ ReadApi
  \/ GenericGeojson

Spec == Init /\ [][Next]_vars
SpecBatch == InitBatch /\ [][Next]_vars
SpecConfig == InitConfig /\ [][Next]_vars
SpecCalls == InitCalls /\ [][Next]_vars
SpecCountry == InitCountry /\ [][Next]_vars
SpecApi == InitApi /\ [][Next]_vars

\* The worker is one sequential process and each of its statements ends,
\* by returning or by raising: a request times out after 10 seconds
\* (line 68) and the sleeps are finite. So, while the process runs, it does
\* not stay at one statement for ever.
Positions == {"start", "bootstrap", "connect", "select", "bump", "primary", "fallback",
              "unresolved", "write", "commit", "sleep", "exited"}
Advance == pc # "exited" /\ pc' \in Positions
SpecLive == InitBatch /\ [][Next]_vars /\ WF_pc(Advance)

TypeOK ==
  /\ pc \in {"start", "bootstrap", "connect", "select", "bump", "primary", "fallback", "unresolved",
             "write", "commit", "sleep", "exited"}
  /\ DOMAIN tx = DOMAIN db

\* ------------------------------------------------------------------------
\* Properties
\* ------------------------------------------------------------------------
Ids == DOMAIN db
Selected == { rows[n].id : n \in 1..Len(rows) }
\* the cycle fetched nothing and returned at line 102
ReturnedEmpty == pc = "sleep" /\ err = "" /\ rows = <<>>
\* the cycle reached line 152
Committed == log # <<>> /\ log[Len(log)].ev = "commit"
Terminal(row) == row.geocode_failed \/ ~IsNone(row.geom_wgs84)

\* C1: every row has 0 <= geocode_attempts <= MAX_ATTEMPTS, in the committed
\* store and in the worker's transaction, and no fetched row had already
\* reached MAX_ATTEMPTS when its cycle began.
C1_AttemptsBounded ==
  /\ \A r \in Ids : /\ db[r].geocode_attempts \in 0..MAX_ATTEMPTS
                    /\ tx[r].geocode_attempts \in 0..MAX_ATTEMPTS
  /\ \A n \in 1..Len(rows) : /\ rows[n].geocode_attempts < MAX_ATTEMPTS
                             /\ dbStart[rows[n].id].geocode_attempts < MAX_ATTEMPTS

\* a row has used all its attempts and a later cycle fetched nothing
C1_Witness ==
  /\ ReturnedEmpty
  /\ \E r \in Ids : db[r].geocode_attempts = MAX_ATTEMPTS

\* C2: a committed row that is permanently failed or has a geometry is not
\* fetched by any later cycle, and no step changes its geocode_failed, its
\* geometry, its longitude or its latitude.
C2_NeverSelected == \A r \in Selected : ~Terminal(dbStart[r])
C2_Frozen ==
  \A r \in Ids :
    /\ db[r].geocode_failed => db'[r].geocode_failed
    /\ Terminal(db[r]) => /\ db'[r].geom_wgs84 = db[r].geom_wgs84
                          /\ db'[r].lon_wgs84 = db[r].lon_wgs84
                          /\ db'[r].lat_wgs84 = db[r].lat_wgs84
C2_TerminalAbsorbing == [](C2_NeverSelected) /\ [][C2_Frozen]_vars

\* a resolved row is left out by a later cycle that fetched another row
C2_Witness ==
  /\ pc = "sleep"
  /\ Committed
  /\ \E r \in Ids \ Selected : ~IsNone(dbStart[r].geom_wgs84)

\* C3: in the committed store and in the worker's transaction a row has a
\* geometry exactly when it has both a longitude and a latitude.
InSync(row) ==
  ~IsNone(row.geom_wgs84) <=> (~IsNone(row.lon_wgs84) /\ ~IsNone(row.lat_wgs84))
C3_GeometryIffCoordinates == \A r \in Ids : InSync(db[r]) /\ InSync(tx[r])

\* one committed row is resolved and another is not
C3_Witness ==
  /\ \E r \in Ids : ~IsNone(db[r].geom_wgs84) /\ ~IsNone(db[r].lon_wgs84)
  /\ \E r \in Ids : IsNone(db[r].geom_wgs84) /\ IsNone(db[r].lat_wgs84)

\* C4: a cycle fetches at most BatchLimit rows, all of them eligible when
\* the cycle began and no row twice; the commit raises geocode_attempts by
\* exactly 1 for the fetched rows and by 0 for the others; no step lowers
\* a committed geocode_attempts.
C4_Batch ==
  /\ Len(rows) <= BatchLimit
  /\ Selected \subseteq Eligible(dbStart)
  /\ \A m, n \in 1..Len(rows) : rows[m].id = rows[n].id => m = n
C4_Step ==
  /\ \A r \in Ids : db'[r].geocode_attempts >= db[r].geocode_attempts
  /\ db' # db =>
       \A r \in Ids : db'[r].geocode_attempts =
                        db[r].geocode_attempts + (IF r \in Selected THEN 1 ELSE 0)
C4_BatchAndIncrement == [](C4_Batch) /\ [][C4_Step]_vars

\* more rows were eligible than the limit, and the cycle committed
C4_Witness ==
  /\ Committed
  /\ Len(rows) = BatchLimit
  /\ Cardinality(Eligible(dbStart)) > BatchLimit
  /\ \E r \in Eligible(dbStart) \ Selected :
       db[r].geocode_attempts = dbStart[r].geocode_attempts

\* what the log of this cycle says about row r
BothReturnedNone(r) ==
  /\ \E n \in Made("primary", r) : log[n].res = "none"
  /\ \E n \in Made("fallback", r) : log[n].res = "none"
Fetched(r) == rows[CHOOSE n \in 1..Len(rows) : rows[n].id = r]

\* C5: a commit turns geocode_failed from FALSE to TRUE for exactly the
\* fetched rows whose two lookups returned nothing and whose incremented
\* geocode_attempts is at least MAX_ATTEMPTS; after a committed cycle such a
\* row fetched at MAX_ATTEMPTS - 1 has MAX_ATTEMPTS attempts, is failed and has
\* no coordinates, and one fetched at a lower count is not failed and still
\* eligible.
C5_Step ==
  db' # db =>
    \A r \in Ids :
      (~db[r].geocode_failed /\ db'[r].geocode_failed)
        <=> /\ r \in Selected
            /\ BothReturnedNone(r)
            /\ db[r].geocode_attempts + 1 >= MAX_ATTEMPTS
C5_After ==
  (pc = "sleep" /\ Committed) =>
    \A r \in Selected :
      BothReturnedNone(r) =>
        IF Fetched(r).geocode_attempts = MAX_ATTEMPTS - 1
        THEN /\ db[r].geocode_attempts = MAX_ATTEMPTS
             /\ db[r].geocode_failed
             /\ IsNone(db[r].lon_wgs84) /\ IsNone(db[r].lat_wgs84)
        ELSE /\ ~db[r].geocode_failed
             /\ r \in Eligible(db)
C5_FailedExactlyWhen == [](C5_After) /\ [][C5_Step]_vars

\* a committed cycle has just marked a row failed
C5_Witness ==
  /\ pc = "sleep"
  /\ Committed
  /\ \E r \in Selected : /\ BothReturnedNone(r)
                         /\ ~dbStart[r].geocode_failed
                         /\ db[r].geocode_failed

\* C5 as stated, for every cycle that has ended, committed or not: the
\* fetched rows that went from not failed to failed are exactly those whose
\* two lookups returned nothing and whose incremented count reached
\* MAX_ATTEMPTS.
C5_Original ==
  pc = "sleep" =>
    \A r \in Selected :
      (~dbStart[r].geocode_failed /\ db[r].geocode_failed)
        <=> /\ BothReturnedNone(r)
            /\ Fetched(r).geocode_attempts + 1 >= MAX_ATTEMPTS

\* C6: a row has at most one primary and one fallback lookup per cycle, the
\* fallback only after a primary that returned nothing; after a committed
\* cycle every fetched row has exactly one primary lookup, no fallback if the
\* primary found coordinates and exactly one otherwise, and a row for which
\* a lookup found coordinates has the fetched geocode_attempts + 1, the
\* coordinates of its first successful lookup, the point made of them, and
\* geocode_failed = FALSE.
FirstFound(r) ==
  log[CHOOSE n \in 1..Len(log) :
        /\ log[n].id = r /\ log[n].res = "found"
        /\ \A m \in 1..(n - 1) : ~(log[m].id = r /\ log[m].res = "found")]
FoundFor(r) == \E n \in 1..Len(log) : log[n].id = r /\ log[n].res = "found"
C6_Lookups ==
  \A r \in Selected :
    /\ Cardinality(Made("primary", r)) <= 1
    /\ Cardinality(Made("fallback", r)) <= 1
    /\ \A f \in Made("fallback", r) :
         \E q \in Made("primary", r) : q < f /\ log[q].res = "none"
C6_After ==
  (pc = "sleep" /\ Committed) =>
    \A r \in Selected :
      /\ Cardinality(Made("primary", r)) = 1
      /\ \A q \in Made("primary", r) :
           Cardinality(Made("fallback", r)) = (IF log[q].res = "found" THEN 0 ELSE 1)
      /\ FoundFor(r) =>
           /\ db[r].geocode_attempts = Fetched(r).geocode_attempts + 1
           /\ db[r].lon_wgs84 = Some(Val(FirstFound(r).at)[1])
           /\ db[r].lat_wgs84 = Some(Val(FirstFound(r).at)[2])
           /\ db[r].geom_wgs84 =
                Some(MakePoint(Val(FirstFound(r).at)[1], Val(FirstFound(r).at)[2]))
           /\ db[r].geocode_failed = FALSE
C6_ResolvedRow == C6_Lookups /\ C6_After

\* on its last attempt a row is resolved by the fallback, at longitude 0
C6_Witness ==
  /\ pc = "sleep"
  /\ Committed
  /\ \E r \in Selected :
       /\ Fetched(r).geocode_attempts = MAX_ATTEMPTS - 1
       /\ \E f \in Made("fallback", r) : log[f].res = "found"
       /\ db[r].lon_wgs84 = Some(0)
       /\ db[r].geocode_attempts = MAX_ATTEMPTS

\* C7: a cycle that fetched no row has made no lookup, no UPDATE and no
\* pacing delay, and leaves the committed store as it was when it began.
C7_EmptyCycleNoEffect ==
  ReturnedEmpty => /\ log = <<>>
                   /\ db = dbStart
                   /\ tx = db

\* rows exist, none is eligible any more, and a cycle returned at once
C7_Witness ==
  /\ ReturnedEmpty
  /\ \E r \in Ids : db[r].geocode_failed
  /\ \E r \in Ids : ~IsNone(db[r].geom_wgs84)

Bumped == { r \in Selected : Made("update_attempts", r) # {} }
\* the cycle was left by an exception after the first UPDATE
Failed == pc = "sleep" /\ err # "" /\ Bumped # {}

\* C8 as stated: after an error later in the cycle, the stored
\* geocode_attempts of a row whose counter was bumped is the bumped value.
C8_Original ==
  Failed => \A r \in Bumped : db[r].geocode_attempts = Fetched(r).geocode_attempts + 1

\* C8 amended: the bumped counter is in the worker's transaction from the
\* UPDATE on, and in the committed store only once the cycle commits; after
\* an error that ends the cycle the stored counter is the value fetched.
C8_IncrementInTransaction ==
  /\ pc \in {"primary", "fallback", "unresolved", "write"} =>
       /\ tx[pid].geocode_attempts = attempts
       /\ db[pid].geocode_attempts = attempts - 1
  /\ Failed => \A r \in Bumped : db[r].geocode_attempts = Fetched(r).geocode_attempts
  /\ (pc = "sleep" /\ Committed) =>
       \A r \in Bumped : db[r].geocode_attempts = Fetched(r).geocode_attempts + 1

\* a lookup raised after the counter of its row had been bumped
C8_Witness ==
  /\ Failed
  /\ err = "TypeError"
  /\ \E r \in Bumped : \E n \in Made("primary", r) \cup Made("fallback", r) :
       log[n].res = "raised"

\* C9: the committed store changes only at line 152, where it takes every
\* write of the cycle at once; until then, and after a cycle left by an
\* exception or cut short by a crash, it is the store the cycle began with;
\* a request to the read endpoint is answered from the store as it was
\* before the cycle or as it is after the commit.
Boundary == IF Committed THEN tx ELSE dbStart
C9_Store ==
  /\ db = Boundary
  /\ pc \in {"select", "bump", "primary", "fallback", "unresolved", "write", "commit"}
       => db = dbStart
  /\ (pc = "sleep" /\ err # "") => db = dbStart
C9_Step ==
  /\ db' # db => pc = "commit" /\ db' = tx /\ pc' = "sleep"
  /\ observed' # observed => observed' = Some(Features(Boundary))
C9_SingleCommit == [](C9_Store) /\ [][C9_Step]_vars

\* a cycle was left by an exception after a coordinate write, and the read
\* endpoint has answered since the cycle began
C9_Witness ==
  /\ pc = "sleep"
  /\ err # ""
  /\ \E n \in 1..Len(log) : log[n].ev = "update_geom"
  /\ observed = Some(Features(dbStart))
  /\ db = dbStart

\* C10: geocode raises nothing, whatever the response.
C10_GeocodeNeverRaises == \A n \in 1..Len(log) : log[n].res # "raised"

\* C11: an exception inside a cycle ends the cycle at the outer loop's
\* except clause with the transaction rolled back, and from there the worker's
\* next move is the sleep of line 166 followed by the next cycle's connect
\* (unless the process is killed).
C11_Caught ==
  (err' # err /\ err' # "") => /\ pc' = "sleep"
                               /\ db' = db
                               /\ tx' = db
C11_ThenNextCycle ==
  (pc = "sleep" /\ err # "" /\ pc' # "sleep") => (pc' = "connect" \/ exitBy' = "killed")
C11_CaughtSleepNextCycle == [][C11_Caught /\ C11_ThenNextCycle]_vars

\* C12: the process ends only by the SystemExit of a missing DATABASE_URL
\* (or by being killed): with DATABASE_URL set, nothing else ends it.
C12_ExitsOnlyOnMissingUrl ==
  /\ pc = "exited" <=> exitBy # ""
  /\ exitBy \in {"", "SystemExit", "killed"}
  /\ exitBy = "SystemExit" => NoDatabaseUrl(env)

Watched == DOMAIN calls
\* the row's counter is bumped in a cycle that has neither committed nor failed
InProgress(r) ==
  IF Made("update_attempts", r) # {} /\ ~Committed /\ err = "" THEN 1 ELSE 0

\* C13 as stated: no row is looked up more than 2 * MAX_ATTEMPTS times.
C13_Original == \A r \in Watched : calls[r] <= 2 * MAX_ATTEMPTS

\* C13 amended: every round of a row makes at most two lookups, and the
\* rounds are those the committed counter has counted, the one in progress,
\* and those of abandoned cycles, which the rollback has uncounted; the total
\* is at most 2 * (MAX_ATTEMPTS + abandoned rounds).
C13_CallsBoundedByRounds ==
  \A r \in Watched :
    /\ calls[r] <= 2 * (db[r].geocode_attempts + InProgress(r) + lost[r])
    /\ calls[r] <= 2 * (MAX_ATTEMPTS + lost[r])
    /\ lost[r] <= calls[r]

\* a row has been looked up more often than the cap allows, after a rollback
C13_Witness ==
  \E r \in Watched : /\ calls[r] > 2 * MAX_ATTEMPTS
                     /\ lost[r] > 0
                     /\ db[r].geocode_attempts < MAX_ATTEMPTS

IsLookup(e) == e.ev \in {"primary", "fallback"}
Lookups == { n \in 1..Len(log) : IsLookup(log[n]) }

\* C14: between any two lookups of a cycle the worker takes a pacing delay.
C14_PacedBetweenLookups ==
  \A m, n \in Lookups :
    m < n => \E k \in (m + 1)..(n - 1) : log[k].ev = "pace"

\* C15: within a cycle every fallback lookup is followed at once by a pacing
\* delay, every coordinate write is followed at once by a pacing delay, and
\* there is no other pacing delay; so after its processing a row resolved by
\* the primary lookup has one delay, a row resolved by the fallback has two,
\* and a row whose two lookups found nothing has one.
FollowedByPace(n) == n < Len(log) /\ log[n + 1].ev = "pace" /\ log[n + 1].id = log[n].id
C15_PaceOnlyThere ==
  \A n \in 1..Len(log) :
    log[n].ev = "pace" =>
      /\ n > 1
      /\ log[n - 1].ev \in {"fallback", "update_geom"}
      /\ log[n - 1].id = log[n].id
C15_PaceAlwaysThere ==
  \A n \in 1..Len(log) :
    log[n].ev \in {"fallback", "update_geom"} => FollowedByPace(n)
C15_PerRow ==
  (pc = "sleep" /\ Committed) =>
    \A r \in Selected :
      Cardinality(Made("pace", r)) =
        (IF Made("fallback", r) # {} THEN 1 ELSE 0) + (IF Made("update_geom", r) # {} THEN 1 ELSE 0)
C15_PacingPlaces == C15_PaceOnlyThere /\ C15_PaceAlwaysThere /\ C15_PerRow

\* C19: no committed row has both a geometry and geocode_failed = TRUE, and
\* a committed row with geocode_failed = TRUE has exactly MAX_ATTEMPTS
\* attempts.
C19_FailedMeansExhausted ==
  \A r \in Ids :
    /\ ~(db[r].geocode_failed /\ ~IsNone(db[r].geom_wgs84))
    /\ db[r].geocode_failed => db[r].geocode_attempts = MAX_ATTEMPTS

\* one row is failed, and another was resolved on its last attempt
C19_Witness ==
  /\ \E r \in Ids : db[r].geocode_failed /\ IsNone(db[r].geom_wgs84)
  /\ \E r \in Ids : /\ ~db[r].geocode_failed
                    /\ ~IsNone(db[r].geom_wgs84)
                    /\ db[r].geocode_attempts = MAX_ATTEMPTS

\* the columns the worker only reads
Text(row) == <<row.name, row.province, row.nearest_city, row.country>>

\* C16: no step inserts or deletes a row or changes the name, province,
\* nearest_city or country of a row, in the committed store or in the
\* worker's transaction; a row whose committed value changes was selected by
\* the cycle that commits, and a row the cycle did not select is the same in
\* the transaction as in the committed store.
C16_Step ==
  /\ DOMAIN db' = DOMAIN db
  /\ DOMAIN tx' = DOMAIN tx
  /\ \A r \in DOMAIN db : /\ Text(db'[r]) = Text(db[r])
                          /\ Text(tx'[r]) = Text(tx[r])
                          /\ db'[r] # db[r] => r \in Selected
                          /\ tx'[r] # tx[r] => (r \in Selected \/ tx'[r] = db[r])
C16_OnlySelectedRowsChange == [][C16_Step]_vars

\* a cycle committed a change to one row and did not select another
C16_Witness ==
  /\ pc = "sleep" /\ Committed
  /\ \E r \in Selected : db[r] # dbStart[r]
  /\ \E r \in Ids \ Selected : db[r] = dbStart[r] /\ tx[r] = db[r]

\* the code of the table for a key, as an optional value
InTable(key) == \E p \in COUNTRY_CODES : p[1] = key
Normal(text) == Lower(Strip(text))
FilterIs(n, text) ==
  /\ \A p \in COUNTRY_CODES : p[1] = Normal(text) => log[n].countrycodes = Some(p[2])
  /\ ~InTable(Normal(text)) => log[n].countrycodes = None

\* C17 as stated: every lookup for a row carries the code the table has for
\* the row's country, trimmed and lower-cased, and no filter when the
\* country is NULL, empty or not in the table; no lookup raises.
C17_Original ==
  \A n \in Lookups :
    /\ FilterIs(n, OrElse(dbStart[log[n].id].country, <<>>))
    /\ log[n].res # "raised"

\* C17 amended: every lookup for a row carries the code the table has for
\* the row's country, trimmed and lower-cased, where a NULL or empty country
\* counts as Canada, and no filter when that name is not in the table; no
\* lookup raises.
C17_FilterFromCountry ==
  \A n \in Lookups :
    /\ FilterIs(n, OrElse(dbStart[log[n].id].country, Canada))
    /\ log[n].res # "raised"

\* both lookups were made, with the filter ca, for a row whose country is
\* Canada with blanks around it
C17_Witness ==
  \E m, n \in Lookups :
    /\ log[m].ev = "primary" /\ log[n].ev = "fallback" /\ log[m].id = log[n].id
    /\ dbStart[log[m].id].country = Some(<<" ", "C", "a", "n", "a", "d", "a", " ">>)
    /\ log[m].countrycodes = Some(<<"c", "a">>)
    /\ log[n].countrycodes = Some(<<"c", "a">>)

\* a name of one letter or underscore followed by letters, digits and
\* underscores only
Identifier(s) ==
  /\ Len(s) >= 1
  /\ s[1] \in FirstChars
  /\ \A i \in 2..Len(s) : s[i] \in RestChars
Interpolated(r) == { i \in 1..Len(r.queries) : r.queries[i][1] = "public" }

\* C18: a response of the generic endpoint to a name that is not an
\* identifier is a 400 with an error body and no query was run; to an
\* identifier with no geom_wgs84 column it is a 404 with an error body and
\* only the catalog query was run; the query with the name in its text is
\* run only for an identifier that has the column, after the catalog query;
\* and the step that answers leaves the rows unchanged.
C18_Reply(r) ==
  /\ ~Identifier(r.table) =>
       r.status = 400 /\ r.body[1] = "error" /\ r.queries = <<>>
  /\ (Identifier(r.table) /\ ~HasGeom(r.table)) =>
       r.status = 404 /\ r.body[1] = "error" /\ r.queries = <<ColumnQuery(r.table)>>
  /\ \A i \in Interpolated(r) :
       /\ Identifier(r.table) /\ HasGeom(r.table)
       /\ i > 1 /\ r.queries[i - 1] = ColumnQuery(r.table)
       /\ r.queries[i] = SelectQuery(r.table)
C18_Step ==
  reply' # reply => /\ C18_Reply(Val(reply'))
                    /\ db' = db
                    /\ tx' = tx
C18_ValidatedReadOnly == [][C18_Step]_vars

\* the endpoint refused a name that begins like an identifier and goes on
\* with a statement, while the worker had rows in its transaction
C18_Witness ==
  /\ reply # None
  /\ Val(reply).table \in TableNames
  /\ Match(Val(reply).table) /\ ~Identifier(Val(reply).table)
  /\ Val(reply).status = 400
  /\ tx # db

\* every row is resolved or failed with at most MAX_ATTEMPTS attempts, and
\* the cycle under way has fetched nothing and written nothing
AllSettled ==
  /\ \A r \in Ids : Terminal(db[r]) /\ db[r].geocode_attempts <= MAX_ATTEMPTS
  /\ rows = <<>>
  /\ tx = db

\* C20: in a behaviour where the process never exits and no cycle is
\* abandoned, whichever rows each cycle fetches, from some point on every
\* row is resolved or failed with at most MAX_ATTEMPTS attempts and every
\* cycle fetches nothing and writes nothing.
C20_Progress == <>(pc = "exited" \/ err # "") \/ <>[]AllSettled

\* all rows are settled, the row that the first cycle left out among them,
\* and a later cycle fetched nothing
C20_Witness ==
  /\ AllSettled
  /\ ReturnedEmpty
  /\ \E r \in Ids : r > BatchLimit /\ db[r].geocode_attempts = MAX_ATTEMPTS
====
